---------------------------- MODULE Spec2Model ----------------------------
(***************************************************************************)
(* ClickUp API client (clickup_api.py): the transport (_make_request and   *)
(* the resource operations built on it) and the mapper (_parse_user,       *)
(* _parse_status, _parse_priority, parse_task and the two aggregate        *)
(* operations).                                                            *)
(*                                                                         *)
(* Python values are modelled with their identity.  An immutable value     *)
(* (None, bool, int, str) is a tagged record; a list or a dict is a cell   *)
(* of the heap and a value refers to it by its address, so that two        *)
(* references to one list see each other's changes as they do in Python.   *)
(* JSON text (an HTTP body, or the literal a caller builds its input from) *)
(* is a nested literal without identity; decoding it allocates fresh       *)
(* cells.                                                                  *)
(***************************************************************************)
EXTENDS Integers, Sequences, FiniteSets, TLC

VARIABLES
    self,      \* the ClickUpAPI object: api_token, base_url, headers
    heap,      \* the lists and dicts alive in the current invocation
    pc,        \* "idle": no invocation; "done": the last invocation ended
    call,      \* the invocation: operation, arguments, raw input
    sent,      \* the HTTP GETs the invocation issued, in order
    outcome,   \* how the invocation ended: returned value or raised error
    touched    \* caller's writes to the data since the invocation ended

vars == <<self, heap, pc, call, sent, outcome, touched>>

---------------------------------------------------------------------------
(* Bounds of the model.                                                    *)

\* longest assignees / watchers array of a generated raw task
MaxUsers == 2
\* longest array in a generated response envelope
MaxItems == 2
\* caller's writes after an invocation ended
MaxWrites == 1

---------------------------------------------------------------------------
(* Python values.                                                          *)

None == [t |-> "null"]
Bool(b) == [t |-> "bool", v |-> b]
Num(n) == [t |-> "num", v |-> n]
Str(s) == [t |-> "str", v |-> s]
Ref(a) == [t |-> "ref", v |-> a]

\* a list (v: sequence) or a dict (v: function from keys); in the heap the
\* elements are values, in a JSON literal they are literals
Arr(s) == [t |-> "arr", v |-> s]
Obj(f) == [t |-> "obj", v |-> f]

NoKeys == [k \in {} |-> None]
EmptyArr == Arr(<<>>)
EmptyObj == Obj(NoKeys)

IsList(h, x) == x.t = "ref" /\ h[x.v].t = "arr"
IsDict(h, x) == x.t = "ref" /\ h[x.v].t = "obj"

\* bool(x): None, False, 0, "" and the empty containers are falsy
Truthy(h, x) ==
    CASE x.t = "null" -> FALSE
      [] x.t = "bool" -> x.v
      [] x.t = "num"  -> x.v # 0
      [] x.t = "str"  -> x.v # ""
      [] x.t = "ref"  -> IF h[x.v].t = "arr" THEN Len(h[x.v].v) > 0
                                             ELSE DOMAIN h[x.v].v # {}

\* d.get(key, default) on the contents d of a dict: the default stands in
\* only for an absent key, a key present with None yields None
Get(d, key, default) == IF key \in DOMAIN d THEN d[key] ELSE default

RECURSIVE KeySeq(_)
KeySeq(S) ==
    IF S = {} THEN <<>>
    ELSE LET k == CHOOSE e \in S : TRUE IN <<k>> \o KeySeq(S \ {k})

IndexOf(s, e) == CHOOSE i \in 1..Len(s) : s[i] = e

\* a function on 1..n as the tuple of its values
Tuple(f) == f \o <<>>

\* a list the call itself builds and hands to its result (the assignees of
\* a task, the tasks of an aggregate operation): nothing else refers to it
PyList(s) == [t |-> "list", v |-> s]

Dataclasses == {"ClickUpUser", "ClickUpStatus", "ClickUpPriority", "ClickUpTask"}

\* the value of x with every reference followed: what a reader of x sees
RECURSIVE View(_, _)
View(h, x) ==
    IF x.t = "ref" THEN
        LET c == h[x.v] IN
        IF c.t = "arr" THEN Arr([i \in 1..Len(c.v) |-> View(h, c.v[i])])
                       ELSE Obj([k \in DOMAIN c.v |-> View(h, c.v[k])])
    ELSE IF x.t = "list" THEN PyList([i \in 1..Len(x.v) |-> View(h, x.v[i])])
    ELSE IF x.t \in Dataclasses THEN
        [f \in DOMAIN x |-> IF f = "t" THEN x.t ELSE View(h, x[f])]
    ELSE x

\* decoding a JSON literal: every array and object becomes a fresh cell.
\* The cells of a literal follow those of the heap it is loaded into, the
\* cells of its elements first (in order), its own cell last.
IsContainer(lit) == lit.t \in {"arr", "obj"}

\* the elements of a container literal, in the order they are decoded
Elements(lit) ==
    IF lit.t = "arr" THEN lit.v
    ELSE LET ks == KeySeq(DOMAIN lit.v) IN Tuple([i \in 1..Len(ks) |-> lit.v[ks[i]]])

\* f[1] + ... + f[n]
SumTo(f, n) == Cardinality(UNION {{<<j, m>> : m \in 1..f[j]} : j \in 1..n})

\* the number of cells a literal decodes to
RECURSIVE Cells(_)
Cells(lit) ==
    IF ~IsContainer(lit) THEN 0
    ELSE LET es == Elements(lit)
             cs == [i \in 1..Len(es) |-> Cells(es[i])]
         IN 1 + SumTo(cs, Len(es))

\* a literal decoded into the addresses that follow base: the new cells
\* and the value that stands for the literal
RECURSIVE Alloc(_, _)
Alloc(lit, base) ==
    IF ~IsContainer(lit) THEN [cells |-> <<>>, val |-> lit]
    ELSE
    LET es == Elements(lit)
        cs == Tuple([i \in 1..Len(es) |-> Cells(es[i])])
        at == Tuple([i \in 1..Len(es) |-> SumTo(cs, i - 1)])
        kids == Tuple([i \in 1..Len(es) |-> Alloc(es[i], base + at[i])])
        vs == Tuple([i \in 1..Len(es) |-> kids[i].val])
        own == IF lit.t = "arr" THEN Arr(vs)
               ELSE LET ks == KeySeq(DOMAIN lit.v) IN
                    Obj([k \in DOMAIN lit.v |-> vs[IndexOf(ks, k)]])
        inner == Tuple([a \in 1..SumTo(cs, Len(es)) |->
                    LET i == CHOOSE j \in 1..Len(es) : at[j] < a /\ a <= at[j] + cs[j]
                    IN kids[i].cells[a - at[i]]])
    IN [cells |-> Append(inner, own), val |-> Ref(base + Len(inner) + 1)]

Extend(h, new) == [h |-> h \o new.cells, val |-> new.val]
Load(h, lit) == Extend(h, Alloc(lit, Len(h)))

---------------------------------------------------------------------------
(* Results of a call: a returned value or a raised exception, with the     *)
(* heap the call left.                                                     *)

Return(h, x) == [ok |-> TRUE, h |-> h, val |-> x, exc |-> "none"]
Raise(h, e) == [ok |-> FALSE, h |-> h, val |-> None, exc |-> e]

---------------------------------------------------------------------------
(* The mapper.                                                             *)

\* ClickUpAPI._parse_user: user_data.get(...) needs a dict
_parse_user(h, user_data) ==
    IF ~IsDict(h, user_data) THEN Raise(h, "AttributeError")
    ELSE LET d == h[user_data.v].v IN
         Return(h, [t |-> "ClickUpUser",
                    id |-> Get(d, "id", None),
                    username |-> Get(d, "username", Str("")),
                    email |-> Get(d, "email", Str("")),
                    color |-> Get(d, "color", Str("")),
                    profile_picture |-> Get(d, "profilePicture", None)])

\* _parse_status with orderindex defaulted like the string fields
_parse_status_blank(h, status_data) ==
    IF ~IsDict(h, status_data) THEN Raise(h, "AttributeError")
    ELSE LET d == h[status_data.v].v IN
         Return(h, [t |-> "ClickUpStatus",
                    status |-> Get(d, "status", Str("")),
                    color |-> Get(d, "color", Str("")),
                    type |-> Get(d, "type", Str("")),
                    orderindex |-> Get(d, "orderindex", Str(""))])

\* ClickUpAPI._parse_status
_parse_status(h, status_data) ==
    IF ~IsDict(h, status_data) THEN Raise(h, "AttributeError")
    ELSE LET d == h[status_data.v].v IN
         Return(h, [t |-> "ClickUpStatus",
                    status |-> Get(d, "status", Str("")),
                    color |-> Get(d, "color", Str("")),
                    type |-> Get(d, "type", Str("")),
                    orderindex |-> Get(d, "orderindex", Num(0))])

\* ClickUpAPI._parse_priority: "if not priority_data: return None"
_parse_priority(h, priority_data) ==
    IF ~Truthy(h, priority_data) THEN Return(h, None)
    ELSE IF ~IsDict(h, priority_data) THEN Raise(h, "AttributeError")
    ELSE LET d == h[priority_data.v].v IN
         Return(h, [t |-> "ClickUpPriority",
                    id |-> Get(d, "id", Str("")),
                    priority |-> Get(d, "priority", Str("")),
                    color |-> Get(d, "color", Str("")),
                    orderindex |-> Get(d, "orderindex", Str(""))])

\* "for user in xs": a list yields its elements, a dict its keys, a str its
\* characters (every one a str: a non-empty str is modelled as yielding
\* itself once); None, bool and int are not iterable
Iterable(h, xs) == xs.t \in {"ref", "str"}
Iterate(h, xs) ==
    IF IsList(h, xs) THEN h[xs.v].v
    ELSE IF IsDict(h, xs) THEN
        LET ks == KeySeq(DOMAIN h[xs.v].v) IN [i \in 1..Len(ks) |-> Str(ks[i])]
    ELSE IF xs.v = "" THEN <<>> ELSE <<xs>>

\* [self._parse_user(user) for user in users]: left to right, the first
\* element that raises ends the comprehension
RECURSIVE MapUsers(_, _)
MapUsers(h, s) ==
    IF Len(s) = 0 THEN Return(h, <<>>)
    ELSE LET u == _parse_user(h, Head(s)) IN
         IF ~u.ok THEN u
         ELSE LET rest == MapUsers(h, Tail(s)) IN
              IF ~rest.ok THEN rest ELSE Return(h, <<u.val>> \o rest.val)

\* the comprehension with the users collected in reverse
parse_users_reversed(h, users) ==
    IF ~Iterable(h, users) THEN Raise(h, "TypeError")
    ELSE LET r == MapUsers(h, Iterate(h, users)) IN
         IF ~r.ok THEN r
         ELSE Return(h, [i \in 1..Len(r.val) |-> r.val[Len(r.val) + 1 - i]])

parse_users(h, users) ==
    IF ~Iterable(h, users) THEN Raise(h, "TypeError")
    ELSE MapUsers(h, Iterate(h, users))

\* the keys whose raw value parse_task stores as it is, in the order the
\* constructor call evaluates them, and the fresh default of each
ArrayKeys == <<"checklists", "tags", "custom_fields", "dependencies", "linked_tasks">>
ObjectKeys == <<"list", "project", "folder", "space">>
PassKeys == ArrayKeys \o ObjectKeys
IsArrayKey(k) == \E i \in 1..Len(ArrayKeys) : ArrayKeys[i] = k
DefaultOf(k) == IF IsArrayKey(k) THEN EmptyArr ELSE EmptyObj

\* task_data.get(k, []) / task_data.get(k, {}) for the keys of PassKeys:
\* the stored object itself when the key is present, else a new empty
\* container.  h0 is the heap before the call, miss the absent keys.
Missing(d) == SelectSeq(PassKeys, LAMBDA k : k \notin DOMAIN d)

\* PassThrough with project_info read from the key "list"
PassThrough_list(h0, d, miss, k) ==
    LET key == IF k = "project" THEN "list" ELSE k IN
    IF key \in DOMAIN d THEN d[key] ELSE Ref(Len(h0) + IndexOf(miss, key))

PassThrough(h0, d, miss, k) ==
    IF k \in DOMAIN d THEN d[k] ELSE Ref(Len(h0) + IndexOf(miss, k))

\* ClickUpAPI.parse_task
parse_task(h, task_data) ==
    IF ~IsDict(h, task_data) THEN Raise(h, "AttributeError")
    ELSE
    LET d == h[task_data.v].v
        \* the default {} / [] of a nested record is a temporary
        tmp == Append(h, EmptyObj)
        tmpl == Append(h, EmptyArr)
        status == _parse_status(tmp, Get(d, "status", Ref(Len(tmp))))
        creator == _parse_user(tmp, Get(d, "creator", Ref(Len(tmp))))
        assignees == parse_users(tmpl, Get(d, "assignees", Ref(Len(tmpl))))
        watchers == parse_users(tmpl, Get(d, "watchers", Ref(Len(tmpl))))
        priority == _parse_priority(h, Get(d, "priority", None))
        miss == Missing(d)
        h2 == h \o [i \in 1..Len(miss) |-> DefaultOf(miss[i])]
    IN
    IF ~status.ok THEN Raise(h, status.exc)
    ELSE IF ~creator.ok THEN Raise(h, creator.exc)
    ELSE IF ~assignees.ok THEN Raise(h, assignees.exc)
    ELSE IF ~watchers.ok THEN Raise(h, watchers.exc)
    ELSE IF ~priority.ok THEN Raise(h, priority.exc)
    ELSE Return(h2,
        [t |-> "ClickUpTask",
         id |-> Get(d, "id", Str("")),
         name |-> Get(d, "name", Str("")),
         text_content |-> Get(d, "text_content", Str("")),
         description |-> Get(d, "description", Str("")),
         status |-> status.val,
         orderindex |-> Get(d, "orderindex", Str("")),
         date_created |-> Get(d, "date_created", Str("")),
         date_updated |-> Get(d, "date_updated", Str("")),
         date_closed |-> Get(d, "date_closed", None),
         date_done |-> Get(d, "date_done", None),
         creator |-> creator.val,
         assignees |-> PyList(assignees.val),
         watchers |-> PyList(watchers.val),
         checklists |-> PassThrough(h, d, miss, "checklists"),
         tags |-> PassThrough(h, d, miss, "tags"),
         parent |-> Get(d, "parent", None),
         priority |-> priority.val,
         due_date |-> Get(d, "due_date", None),
         start_date |-> Get(d, "start_date", None),
         points |-> Get(d, "points", None),
         time_estimate |-> Get(d, "time_estimate", None),
         time_spent |-> Get(d, "time_spent", None),
         custom_fields |-> PassThrough(h, d, miss, "custom_fields"),
         dependencies |-> PassThrough(h, d, miss, "dependencies"),
         linked_tasks |-> PassThrough(h, d, miss, "linked_tasks"),
         team_id |-> Get(d, "team_id", Str("")),
         url |-> Get(d, "url", Str("")),
         permission_level |-> Get(d, "permission_level", Str("")),
         list_info |-> PassThrough(h, d, miss, "list"),
         project_info |-> PassThrough(h, d, miss, "project"),
         folder_info |-> PassThrough(h, d, miss, "folder"),
         space_info |-> PassThrough(h, d, miss, "space")])

\* [self.parse_task(task) for task in raw_tasks]
RECURSIVE MapTasks(_, _)
MapTasks(h, s) ==
    IF Len(s) = 0 THEN Return(h, <<>>)
    ELSE LET x == parse_task(h, Head(s)) IN
         IF ~x.ok THEN x
         ELSE LET rest == MapTasks(x.h, Tail(s)) IN
              IF ~rest.ok THEN Raise(h, rest.exc)
              ELSE Return(rest.h, <<x.val>> \o rest.val)

---------------------------------------------------------------------------
(* Inputs: the JSON the caller or the server supplies.                     *)

SeqsUpTo(S, n) == UNION {[1..m -> S] : m \in 0..n}

Without(o, k) == Obj([j \in DOMAIN o.v \ {k} |-> o.v[j]])
With(o, k, x) == Obj([j \in DOMAIN o.v \cup {k} |-> IF j = k THEN x ELSE o.v[j]])

UserAnn ==
    Obj([id |-> Num(1), username |-> Str("ann"), email |-> Str("ann@x.io"),
         color |-> Str("#111"), profilePicture |-> Str("ann.png")])
UserBob == Obj([id |-> Num(2), username |-> Str("bob")])
UserItems == {UserAnn, UserBob, EmptyObj, None}
UserArrays == {Arr(us) : us \in SeqsUpTo(UserItems, MaxUsers)}

StatusOpen ==
    Obj([status |-> Str("open"), color |-> Str("#d3d3d3"), type |-> Str("open"),
         orderindex |-> Num(1)])
PriorityHigh ==
    Obj([id |-> Str("2"), priority |-> Str("high"), color |-> Str("#ffcc00"),
         orderindex |-> Str("2")])

StringKeys ==
    {"id", "name", "text_content", "description", "orderindex", "date_created",
     "date_updated", "date_closed", "date_done", "parent", "due_date",
     "start_date", "team_id", "url", "permission_level"}
NumberKeys == {"points", "time_estimate", "time_spent"}
UserListKeys == {"assignees", "watchers"}
TaskKeys ==
    StringKeys \cup NumberKeys \cup UserListKeys \cup {"status", "creator", "priority"}
    \cup {PassKeys[i] : i \in 1..Len(PassKeys)}

\* the values a raw task is given under key k
Values(k) ==
    IF k \in StringKeys THEN {Str("abc"), Str(""), None}
    ELSE IF k \in NumberKeys THEN {Num(3), Num(0), None}
    ELSE IF k = "status" THEN
        {StatusOpen, Obj([status |-> Str("done")]), EmptyObj, None, Str("open")}
    ELSE IF k = "creator" THEN {UserAnn, UserBob, EmptyObj, None, Num(1)}
    ELSE IF k \in UserListKeys THEN
        UserArrays \cup {None, Num(1), Str(""), Str("ann"), EmptyObj, UserBob}
    ELSE IF k = "priority" THEN
        {PriorityHigh, Obj([priority |-> Str("low")]), EmptyObj, None, Num(0),
         Num(1), Str(""), Str("high"), EmptyArr, Arr(<<Str("high")>>)}
    ELSE IF IsArrayKey(k) THEN
        {EmptyArr, Arr(<<Str("t1"), Str("t2")>>), Arr(<<Obj([name |-> Str("x")])>>),
         None, EmptyObj}
    ELSE {EmptyObj, Obj([id |-> Str("9"), name |-> Str("L")]),
          Obj([id |-> Str("9"), tags |-> Arr(<<Str("a")>>)]), None}

EmptyTask == EmptyObj
MinTask == Obj([id |-> Str("abc"), name |-> Str("Fix bug")])
NullTask == Obj([k \in TaskKeys |-> None])
FullTask ==
    Obj([k \in TaskKeys |->
           IF k \in StringKeys THEN Str("abc")
           ELSE IF k \in NumberKeys THEN Num(3)
           ELSE IF k = "status" THEN StatusOpen
           ELSE IF k = "creator" THEN UserAnn
           ELSE IF k = "assignees" THEN Arr(<<UserAnn, UserBob>>)
           ELSE IF k = "watchers" THEN Arr(<<UserBob>>)
           ELSE IF k = "priority" THEN PriorityHigh
           ELSE IF IsArrayKey(k) THEN Arr(<<Str("t1"), Str("t2")>>)
           ELSE Obj([id |-> Str("9"), name |-> Str("L")])])
\* every key the code tolerates as None is None, the others are given
SparseTask ==
    Obj([k \in TaskKeys |->
           IF k = "status" THEN EmptyObj
           ELSE IF k = "creator" THEN EmptyObj
           ELSE IF k \in UserListKeys THEN EmptyArr
           ELSE None])

BaseTasks == {EmptyTask, MinTask, NullTask, FullTask, SparseTask}

\* a base task, or one with a single key removed or given another value
Variants(o) ==
    {o} \cup {Without(o, k) : k \in TaskKeys}
        \cup UNION {{With(o, k, x) : x \in Values(k)} : k \in TaskKeys}

RawTasks == UNION {Variants(o) : o \in BaseTasks} \cup {None, Str("abc"), EmptyArr}

\* what the network does with a GET; a body is a JSON literal or text that
\* is not JSON
NotJson == [t |-> "text"]
Statuses == {200, 404, 500}
EnvelopeKeys == {"teams", "spaces", "folders", "lists", "tasks"}
Items == {MinTask, FullTask, With(MinTask, "status", None)}
Bodies ==
    {Obj([k \in {key} |-> Arr(s)]) : key \in EnvelopeKeys, s \in SeqsUpTo(Items, MaxItems)}
    \cup {Obj([tasks |-> None]), Obj([tasks |-> MinTask]), Obj([err |-> Str("Oops")]),
          EmptyObj, EmptyArr, Arr(<<MinTask>>), FullTask, None, NotJson}
Responses ==
    {[reached |-> FALSE, status |-> 0, body |-> NotJson]}
    \cup {[reached |-> TRUE, status |-> st, body |-> b] : st \in Statuses, b \in Bodies}

Ids == {"1", "999"}
Params == {NoKeys, [page |-> Num(0)]}
Tokens == {"pk_token"}

NoResponse == [reached |-> FALSE, status |-> 0, body |-> NotJson]

---------------------------------------------------------------------------
(* The transport.  resp is what the network does with the GET: unreachable, *)
(* or a status and a body.  The operations start from an empty heap: the    *)
(* objects of an invocation are those its response decodes to.              *)

\* requests.exceptions.RequestException and the subclasses raised here
RequestException == {"ConnectionError", "HTTPError", "JSONDecodeError"}

\* ClickUpAPI.__init__
ClickUpAPI(api_token) ==
    [api_token |-> api_token,
     base_url |-> "https://api.clickup.com/api/v2",
     headers |-> [Authorization |-> api_token, ContentType |-> "application/json"]]

\* raise_for_status raising for server errors only
IsErrorStatus_5xx(status) == status >= 500 /\ status < 600

\* Response.raise_for_status: a 4xx or 5xx status raises HTTPError
IsErrorStatus(status) == status >= 400 /\ status < 600

\* response.json() handed back to the caller
Decoded(in) == Return(in.h, in.val)

Sent(r, gets) ==
    [ok |-> r.ok, h |-> r.h, val |-> r.val, exc |-> r.exc, gets |-> gets]

\* _make_request sending the GET again when the first one fails
_make_request_retry(me, endpoint, params, resp) ==
    LET get == [url |-> me.base_url \o endpoint, headers |-> me.headers,
                params |-> params]
    IN IF ~resp.reached THEN Sent(Raise(<<>>, "ConnectionError"), <<get, get>>)
       ELSE IF IsErrorStatus(resp.status) THEN Sent(Raise(<<>>, "HTTPError"), <<get, get>>)
       ELSE IF resp.body.t = "text" THEN Sent(Raise(<<>>, "JSONDecodeError"), <<get>>)
       ELSE Sent(Decoded(Load(<<>>, resp.body)), <<get>>)

\* ClickUpAPI._make_request: one requests.get, raise_for_status, json()
_make_request(me, endpoint, params, resp) ==
    LET get == [url |-> me.base_url \o endpoint, headers |-> me.headers,
                params |-> params]
    IN IF ~resp.reached THEN Sent(Raise(<<>>, "ConnectionError"), <<get>>)
       ELSE IF IsErrorStatus(resp.status) THEN Sent(Raise(<<>>, "HTTPError"), <<get>>)
       ELSE IF resp.body.t = "text" THEN Sent(Raise(<<>>, "JSONDecodeError"), <<get>>)
       ELSE Sent(Decoded(Load(<<>>, resp.body)), <<get>>)

\* r.get(key, []) in place of r[key]: an absent key yields an empty list
Subscript_get(r, key) ==
    IF ~r.ok THEN r
    ELSE IF ~IsDict(r.h, r.val) THEN Sent(Raise(r.h, "AttributeError"), r.gets)
    ELSE IF key \notin DOMAIN r.h[r.val.v].v
         THEN Sent(Return(Append(r.h, EmptyArr), Ref(Len(r.h) + 1)), r.gets)
    ELSE Sent(Return(r.h, r.h[r.val.v].v[key]), r.gets)

\* r[key] on the decoded body: KeyError for a dict without the key,
\* TypeError for anything that is not a dict
Subscript(r, key) ==
    IF ~r.ok THEN r
    ELSE IF ~IsDict(r.h, r.val) THEN Sent(Raise(r.h, "TypeError"), r.gets)
    ELSE IF key \notin DOMAIN r.h[r.val.v].v THEN Sent(Raise(r.h, "KeyError"), r.gets)
    ELSE Sent(Return(r.h, r.h[r.val.v].v[key]), r.gets)

get_teams(me, resp) ==
    Subscript(_make_request(me, "/team", None, resp), "teams")

get_spaces(me, team_id, resp) ==
    Subscript(_make_request(me, "/team/" \o team_id \o "/space", None, resp),
              "spaces")

get_folders(me, space_id, resp) ==
    Subscript(_make_request(me, "/space/" \o space_id \o "/folder", None, resp),
              "folders")

get_lists(me, folder_id, resp) ==
    Subscript(_make_request(me, "/folder/" \o folder_id \o "/list", None, resp),
              "lists")

get_folderless_lists(me, space_id, resp) ==
    Subscript(_make_request(me, "/space/" \o space_id \o "/list", None, resp),
              "lists")

get_tasks_from_list(me, list_id, params, resp) ==
    Subscript(_make_request(me, "/list/" \o list_id \o "/task", Obj(params), resp),
              "tasks")

get_tasks_from_team(me, team_id, params, resp) ==
    Subscript(_make_request(me, "/team/" \o team_id \o "/task", Obj(params), resp),
              "tasks")

get_task(me, task_id, resp) ==
    _make_request(me, "/task/" \o task_id, None, resp)

\* the comprehension leaving out the tasks equal to an earlier one
parse_tasks_distinct(r) ==
    IF ~r.ok THEN r
    ELSE IF ~Iterable(r.h, r.val) THEN Sent(Raise(r.h, "TypeError"), r.gets)
    ELSE LET m == MapTasks(r.h, Iterate(r.h, r.val)) IN
         IF ~m.ok THEN Sent(Raise(r.h, m.exc), r.gets)
         ELSE LET vw == [i \in 1..Len(m.val) |-> View(m.h, m.val[i])]
                  keep == {i \in 1..Len(m.val) : \A j \in 1..(i - 1) : vw[j] # vw[i]}
                  pick(i) == CHOOSE k \in keep :
                                 Cardinality({j \in keep : j <= k}) = i
              IN Sent(Return(m.h, PyList([i \in 1..Cardinality(keep) |->
                                             m.val[pick(i)]])), r.gets)

\* return [self.parse_task(task) for task in raw_tasks]
parse_tasks(r) ==
    IF ~r.ok THEN r
    ELSE IF ~Iterable(r.h, r.val) THEN Sent(Raise(r.h, "TypeError"), r.gets)
    ELSE LET m == MapTasks(r.h, Iterate(r.h, r.val)) IN
         IF ~m.ok THEN Sent(Raise(r.h, m.exc), r.gets)
         ELSE Sent(Return(m.h, PyList(m.val)), r.gets)

get_all_tasks_as_objects(me, team_id, params, resp) ==
    parse_tasks(get_tasks_from_team(me, team_id, params, resp))

get_list_tasks_as_objects(me, list_id, params, resp) ==
    parse_tasks(get_tasks_from_list(me, list_id, params, resp))

---------------------------------------------------------------------------
(* The state machine: one action per operation of the client.  An          *)
(* operation runs to its end in one step (the client is synchronous); the  *)
(* caller then holds the outcome until it lets go of it.                   *)

Init ==
    /\ self \in {ClickUpAPI(tok) : tok \in Tokens}
    /\ heap = <<>>
    /\ pc = "idle"
    /\ call = [op |-> "none", arg |-> "", params |-> NoKeys, raw |-> None,
               resp |-> NoResponse]
    /\ sent = <<>>
    /\ outcome = [ok |-> TRUE, val |-> None, exc |-> "none"]
    /\ touched = <<>>

\* the invocation ended with result r, having sent gets
Ended(op, arg, params, raw, resp, r, gets) ==
    /\ pc' = "done"
    /\ heap' = r.h
    /\ call' = [op |-> op, arg |-> arg, params |-> params, raw |-> raw, resp |-> resp]
    /\ sent' = gets
    /\ outcome' = [ok |-> r.ok, val |-> r.val, exc |-> r.exc]
    /\ touched' = <<>>
    /\ UNCHANGED self

Fetched(op, arg, params, resp, r) ==
    Ended(op, arg, params, None, resp, r, r.gets)

Mapped(op, raw, r) ==
    Ended(op, "", NoKeys, raw, NoResponse, r, <<>>)

Call_get_teams ==
    /\ pc = "idle"
    /\ \E resp \in Responses :
         Fetched("get_teams", "", NoKeys, resp, get_teams(self, resp))

Call_get_spaces ==
    /\ pc = "idle"
    /\ \E id \in Ids, resp \in Responses :
         Fetched("get_spaces", id, NoKeys, resp, get_spaces(self, id, resp))

Call_get_folders ==
    /\ pc = "idle"
    /\ \E id \in Ids, resp \in Responses :
         Fetched("get_folders", id, NoKeys, resp, get_folders(self, id, resp))

Call_get_lists ==
    /\ pc = "idle"
    /\ \E id \in Ids, resp \in Responses :
         Fetched("get_lists", id, NoKeys, resp, get_lists(self, id, resp))

Call_get_folderless_lists ==
    /\ pc = "idle"
    /\ \E id \in Ids, resp \in Responses :
         Fetched("get_folderless_lists", id, NoKeys, resp,
                 get_folderless_lists(self, id, resp))

Call_get_tasks_from_list ==
    /\ pc = "idle"
    /\ \E id \in Ids, params \in Params, resp \in Responses :
         Fetched("get_tasks_from_list", id, params, resp,
                 get_tasks_from_list(self, id, params, resp))

Call_get_tasks_from_team ==
    /\ pc = "idle"
    /\ \E id \in Ids, params \in Params, resp \in Responses :
         Fetched("get_tasks_from_team", id, params, resp,
                 get_tasks_from_team(self, id, params, resp))

Call_get_task ==
    /\ pc = "idle"
    /\ \E id \in Ids, resp \in Responses :
         Fetched("get_task", id, NoKeys, resp, get_task(self, id, resp))

Call_get_all_tasks_as_objects ==
    /\ pc = "idle"
    /\ \E id \in Ids, params \in Params, resp \in Responses :
         Fetched("get_all_tasks_as_objects", id, params, resp,
                 get_all_tasks_as_objects(self, id, params, resp))

Call_get_list_tasks_as_objects ==
    /\ pc = "idle"
    /\ \E id \in Ids, params \in Params, resp \in Responses :
         Fetched("get_list_tasks_as_objects", id, params, resp,
                 get_list_tasks_as_objects(self, id, params, resp))

Call_parse_user ==
    /\ pc = "idle"
    /\ \E lit \in Values("creator") :
         \E in \in {Load(heap, lit)} :
           Mapped("_parse_user", in.val, _parse_user(in.h, in.val))

Call_parse_status ==
    /\ pc = "idle"
    /\ \E lit \in Values("status") :
         \E in \in {Load(heap, lit)} :
           Mapped("_parse_status", in.val, _parse_status(in.h, in.val))

Call_parse_priority ==
    /\ pc = "idle"
    /\ \E lit \in Values("priority") :
         \E in \in {Load(heap, lit)} :
           Mapped("_parse_priority", in.val, _parse_priority(in.h, in.val))

Call_parse_task ==
    /\ pc = "idle"
    /\ \E lit \in RawTasks :
         \E in \in {Load(heap, lit)} :
           Mapped("parse_task", in.val, parse_task(in.h, in.val))

\* the caller lets go of the outcome and of the data it was built from
Discard ==
    /\ pc = "done"
    /\ pc' = "idle"
    /\ heap' = <<>>
    /\ call' = [op |-> "none", arg |-> "", params |-> NoKeys, raw |-> None,
                resp |-> NoResponse]
    /\ sent' = <<>>
    /\ outcome' = [ok |-> TRUE, val |-> None, exc |-> "none"]
    /\ touched' = <<>>
    /\ UNCHANGED self

Next ==
    \/ Call_get_teams
    \/ Call_get_spaces
    \/ Call_get_folders
    \/ Call_get_lists
    \/ Call_get_folderless_lists
    \/ Call_get_tasks_from_list
    \/ Call_get_tasks_from_team
    \/ Call_get_task
    \/ Call_get_all_tasks_as_objects
    \/ Call_get_list_tasks_as_objects
    \/ Call_parse_user
    \/ Call_parse_status
    \/ Call_parse_priority
    \/ Call_parse_task
    \/ Discard

Spec == Init /\ [][Next]_vars

---------------------------------------------------------------------------
(* The caller's writes after parse_task has returned: neither the raw dict *)
(* nor the dataclass instance is frozen.                                   *)

\* the addresses of the lists and dicts reachable from x
RECURSIVE Reach(_, _)
Reach(h, x) ==
    IF x.t = "ref" THEN
        LET c == h[x.v] IN
        {x.v} \cup UNION {Reach(h, c.v[i]) : i \in DOMAIN c.v}
    ELSE IF x.t = "list" THEN UNION {Reach(h, x.v[i]) : i \in DOMAIN x.v}
    ELSE IF x.t \in Dataclasses THEN UNION {Reach(h, x[f]) : f \in DOMAIN x \ {"t"}}
    ELSE {}

\* xs.append("new") on a list, d["new"] = "new" on a dict
Grow(c) ==
    IF c.t = "arr" THEN Arr(Append(c.v, Str("new")))
    ELSE Obj([k \in DOMAIN c.v \cup {"new"} |-> IF k = "new" THEN Str("new") ELSE c.v[k]])

CanWrite ==
    /\ pc = "done"
    /\ call.op = "parse_task"
    /\ outcome.ok
    /\ Len(touched) < MaxWrites

\* the caller changes the raw dict it passed, or a list or dict inside it
WriteRaw ==
    /\ CanWrite
    /\ \E a \in Reach(heap, call.raw) : heap' = [heap EXCEPT ![a] = Grow(@)]
    /\ touched' = Append(touched, "raw")
    /\ UNCHANGED <<self, pc, call, sent, outcome>>

\* the caller changes the task: a list or dict it reaches through a field,
\* or a field itself
WriteTask ==
    /\ CanWrite
    /\ \/ /\ \E a \in Reach(heap, outcome.val) : heap' = [heap EXCEPT ![a] = Grow(@)]
          /\ UNCHANGED outcome
       \/ /\ outcome' = [outcome EXCEPT !.val.name = Str("new")]
          /\ UNCHANGED heap
    /\ touched' = Append(touched, "task")
    /\ UNCHANGED <<self, pc, call, sent>>

NextCaller ==
    \/ Call_parse_task
    \/ Discard
    \/ WriteRaw
    \/ WriteTask

SpecCaller == Init /\ [][NextCaller]_vars

---------------------------------------------------------------------------
(* Properties.                                                             *)

After(op) == pc = "done" /\ call.op = op

\* the contents of the raw dict a mapper operation was called with
RawDict == heap[call.raw.v].v

\* the raw input as a reader sees it, and the outcome likewise
RawView == View(heap, call.raw)
ResultView == View(heap, outcome.val)

\* the Task field that holds raw key k
FieldOf(k) ==
    CASE k = "list" -> "list_info"
      [] k = "project" -> "project_info"
      [] k = "folder" -> "folder_info"
      [] k = "space" -> "space_info"
      [] OTHER -> k

DefaultStatus ==
    [t |-> "ClickUpStatus", status |-> Str(""), color |-> Str(""), type |-> Str(""),
     orderindex |-> Num(0)]
DefaultUser ==
    [t |-> "ClickUpUser", id |-> None, username |-> Str(""), email |-> Str(""),
     color |-> Str(""), profile_picture |-> None]
EmptyPriority ==
    [t |-> "ClickUpPriority", id |-> Str(""), priority |-> Str(""), color |-> Str(""),
     orderindex |-> Str("")]

\* the documented default of the Task field for raw key k
DocumentedDefault(k) ==
    IF k \in {"id", "name", "text_content", "description", "orderindex",
              "date_created", "date_updated", "team_id", "url", "permission_level"}
    THEN Str("")
    ELSE IF k = "status" THEN DefaultStatus
    ELSE IF k = "creator" THEN DefaultUser
    ELSE IF k \in UserListKeys THEN PyList(<<>>)
    ELSE IF IsArrayKey(k) THEN EmptyArr
    ELSE IF k \in {"list", "project", "folder", "space"} THEN EmptyObj
    ELSE None

\* the value under key k, where given and not null, has the shape the API
\* documents for it
WellShaped(k) ==
    k \in DOMAIN RawDict /\ RawDict[k] # None =>
        IF k \in {"status", "creator", "priority"} THEN IsDict(heap, RawDict[k])
        ELSE IF k \in UserListKeys THEN
            /\ IsList(heap, RawDict[k])
            /\ \A i \in 1..Len(heap[RawDict[k].v].v) : IsDict(heap, heap[RawDict[k].v].v[i])
        ELSE IF IsArrayKey(k) THEN IsList(heap, RawDict[k])
        ELSE IF k \in {"list", "project", "folder", "space"} THEN IsDict(heap, RawDict[k])
        ELSE RawDict[k].t \in {"str", "num"}

\* C1: _parse_priority(null) returns null, and _parse_priority({}) returns a
\* Priority record, not null, whose id, priority, color and orderindex are
\* all the empty string.
C1_PriorityNullVersusEmpty ==
    After("_parse_priority") =>
        /\ call.raw = None => outcome.ok /\ outcome.val = None
        /\ (IsDict(heap, call.raw) /\ DOMAIN RawDict = {}) =>
               outcome.ok /\ outcome.val = EmptyPriority

\* the keys of a raw task other than its identifying id and name
OptionalKeys == TaskKeys \ {"id", "name"}

\* C2: for every raw task object in which any of the optional keys is
\* absent or null (the keys that are given holding well-shaped values),
\* parse_task raises no error and returns a Task with the documented default
\* in the field of every absent or null key.
C2_NullOrMissingGetsDefault ==
    (/\ After("parse_task")
     /\ IsDict(heap, call.raw)
     /\ \A k \in TaskKeys : WellShaped(k))
    => /\ outcome.ok
       /\ \A k \in OptionalKeys :
            (k \notin DOMAIN RawDict \/ RawDict[k] = None) =>
                ResultView[FieldOf(k)] = DocumentedDefault(k)

\* C3: the Task that parse_task returns for a raw task with id and name but
\* no status, priority or assignees key has that id and name, the default
\* Status (status, color and type empty, orderindex 0), priority null and
\* no assignees; and the status of every Task parse_task returns is a
\* Status record, never null.
C3_DefaultsForMinimalTask ==
    (After("parse_task") /\ outcome.ok) =>
        /\ outcome.val.status.t = "ClickUpStatus"
        /\ ({"id", "name"} \subseteq DOMAIN RawDict
            /\ DOMAIN RawDict \cap {"status", "priority", "assignees"} = {})
           => /\ outcome.val.id = RawDict["id"]
              /\ outcome.val.name = RawDict["name"]
              /\ outcome.val.status = DefaultStatus
              /\ outcome.val.priority = None
              /\ outcome.val.assignees = PyList(<<>>)

\* the scenario {"id": "abc", "name": "Fix bug"} has been mapped
C3_Witness ==
    /\ After("parse_task")
    /\ RawView = MinTask
    /\ outcome.ok
    /\ outcome.val.id = Str("abc")
    /\ outcome.val.name = Str("Fix bug")
    /\ outcome.val.status = DefaultStatus
    /\ outcome.val.priority = None

\* the users of the Task under field k are those of the raw array, each
\* mapped by _parse_user, in source order
UsersInOrder(k) ==
    k \in DOMAIN RawDict /\ IsList(heap, RawDict[k]) =>
        LET us == heap[RawDict[k].v].v IN
        /\ Len(outcome.val[k].v) = Len(us)
        /\ \A i \in 1..Len(us) :
             LET u == _parse_user(heap, us[i]) IN
             u.ok /\ outcome.val[k].v[i] = u.val

\* C4: for a raw task whose assignees (watchers) array is [u1, ..., un], the
\* Task's assignees (watchers) has length n and its i-th element is
\* _parse_user(ui): nothing dropped, duplicated or reordered.
C4_UsersKeepSourceOrder ==
    (After("parse_task") /\ outcome.ok) =>
        UsersInOrder("assignees") /\ UsersInOrder("watchers")

\* a task with two different assignees has been mapped
C4_Witness ==
    /\ After("parse_task")
    /\ outcome.ok
    /\ "assignees" \in DOMAIN RawDict
    /\ IsList(heap, RawDict["assignees"])
    /\ Len(outcome.val.assignees.v) = 2
    /\ outcome.val.assignees.v[1].username = Str("bob")
    /\ outcome.val.assignees.v[2].username = Str("ann")

\* C5: each of checklists, tags, custom_fields, dependencies, linked_tasks,
\* list_info, project_info, folder_info and space_info read back from the
\* Task is the raw value under its key, or the empty array (the five
\* collections) or the empty object (the four containers) when the key is
\* absent.
C5_PassThroughRoundTrip ==
    (After("parse_task") /\ outcome.ok) =>
        \A i \in 1..Len(PassKeys) :
            LET k == PassKeys[i] IN
            IF k \in DOMAIN RawDict
            THEN /\ outcome.val[FieldOf(k)] = RawDict[k]
                 /\ ResultView[FieldOf(k)] = RawView.v[k]
            ELSE ResultView[FieldOf(k)] = DefaultOf(k)

\* a task with its collections and containers given, all but "list", has
\* been mapped
C5_Witness ==
    /\ After("parse_task")
    /\ outcome.ok
    /\ RawView = Without(FullTask, "list")
    /\ ResultView.list_info = EmptyObj
    /\ ResultView.project_info = Obj([id |-> Str("9"), name |-> Str("L")])

\* the operations that return one array of the response envelope, and the
\* key of each
EnvelopeKey(op) ==
    CASE op = "get_teams" -> "teams"
      [] op = "get_spaces" -> "spaces"
      [] op = "get_folders" -> "folders"
      [] op = "get_lists" -> "lists"
      [] op = "get_folderless_lists" -> "lists"
      [] op = "get_tasks_from_list" -> "tasks"
      [] op = "get_tasks_from_team" -> "tasks"
EnvelopeOps ==
    {"get_teams", "get_spaces", "get_folders", "get_lists", "get_folderless_lists",
     "get_tasks_from_list", "get_tasks_from_team"}
AggregateOps == {"get_all_tasks_as_objects", "get_list_tasks_as_objects"}
ResourceOps == EnvelopeOps \cup AggregateOps \cup {"get_task"}

\* the GET succeeded and its body decoded
Decodes == call.resp.reached /\ ~IsErrorStatus(call.resp.status) /\ call.resp.body # NotJson

\* the decoded body is an object without the key the operation extracts
LacksKey ==
    /\ pc = "done"
    /\ call.op \in EnvelopeOps
    /\ Decodes
    /\ call.resp.body.t = "obj"
    /\ EnvelopeKey(call.op) \notin DOMAIN call.resp.body.v

\* C6 as stated: an envelope operation whose GET succeeds but whose decoded
\* response lacks the expected key fails with a TransportError, the error
\* kind of an HTTP failure.
C6_MissingKeyIsTransportError ==
    LacksKey => ~outcome.ok /\ outcome.exc \in RequestException

\* C6 as amended: it fails with a KeyError, a lookup error that is not a
\* TransportError (not the error kind of an HTTP failure), and returns no
\* list.
C6_MissingKeyIsLookupError ==
    LacksKey =>
        /\ ~outcome.ok
        /\ outcome.val = None
        /\ outcome.exc = "KeyError"
        /\ outcome.exc \notin RequestException

\* get_teams got 200 and an object without "teams"
C6_Witness ==
    /\ After("get_teams")
    /\ call.resp.reached
    /\ call.resp.status = 200
    /\ call.resp.body = Obj([err |-> Str("Oops")])
    /\ outcome.exc = "KeyError"

\* C7: a GET that ends in an error status makes the operation fail with a
\* TransportError and yield no record; an aggregate operation ends with the
\* complete mapped list or with a failure, never with a partial list.
C7_FailureYieldsNothing ==
    (pc = "done" /\ call.op \in ResourceOps) =>
        /\ (call.resp.reached /\ call.resp.status \in {404, 500}) =>
               /\ ~outcome.ok
               /\ outcome.exc = "HTTPError"
               /\ outcome.exc \in RequestException
        /\ ~outcome.ok => outcome.val = None
        /\ (call.op \in AggregateOps /\ outcome.ok) =>
               /\ call.resp.body.t = "obj"
               /\ "tasks" \in DOMAIN call.resp.body.v
               /\ LET ts == call.resp.body.v["tasks"] IN
                  /\ Len(outcome.val.v) = IF ts.t = "arr" THEN Len(ts.v) ELSE 0
                  /\ \A i \in 1..Len(outcome.val.v) : outcome.val.v[i].t = "ClickUpTask"

\* get_task("999") got 404
C7_Witness ==
    /\ After("get_task")
    /\ call.arg = "999"
    /\ call.resp.reached
    /\ call.resp.status = 404
    /\ ~outcome.ok
    /\ outcome.exc = "HTTPError"

\* parse_task applied to the task literal lit on its own
Alone(lit) == LET in == Load(<<>>, lit) IN parse_task(in.h, in.val)
AloneView(lit) == LET r == Alone(lit) IN View(r.h, r.val)

\* C8: for a successful response whose tasks array is [t1, ..., tn] the
\* aggregate operations return exactly [parse_task(t1), ..., parse_task(tn)]
\* (same length, same order, nothing sorted, filtered or removed), and fail
\* as the first failing parse_task does when one of them fails.
C8_AggregateMapsInOrder ==
    (/\ pc = "done"
     /\ call.op \in AggregateOps
     /\ Decodes
     /\ call.resp.body.t = "obj"
     /\ "tasks" \in DOMAIN call.resp.body.v
     /\ call.resp.body.v["tasks"].t = "arr")
    => LET ts == call.resp.body.v["tasks"].v
           bad == {i \in 1..Len(ts) : ~Alone(ts[i]).ok}
       IN IF bad = {}
          THEN /\ outcome.ok
               /\ Len(outcome.val.v) = Len(ts)
               /\ \A i \in 1..Len(ts) : ResultView.v[i] = AloneView(ts[i])
          ELSE /\ ~outcome.ok
               /\ \E i \in bad : /\ \A j \in bad : i <= j
                                 /\ outcome.exc = Alone(ts[i]).exc

\* an aggregate operation returned two different tasks
C8_Witness ==
    /\ After("get_list_tasks_as_objects")
    /\ outcome.ok
    /\ call.resp.body = Obj([tasks |-> Arr(<<FullTask, MinTask>>)])
    /\ Len(outcome.val.v) = 2
    /\ outcome.val.v[1].name = Str("abc")
    /\ outcome.val.v[2].name = Str("Fix bug")

\* the URL each resource operation requests
EndpointOf(op, arg) ==
    CASE op = "get_teams" -> "/team"
      [] op = "get_spaces" -> "/team/" \o arg \o "/space"
      [] op = "get_folders" -> "/space/" \o arg \o "/folder"
      [] op = "get_lists" -> "/folder/" \o arg \o "/list"
      [] op = "get_folderless_lists" -> "/space/" \o arg \o "/list"
      [] op \in {"get_tasks_from_list", "get_list_tasks_as_objects"} ->
             "/list/" \o arg \o "/task"
      [] op \in {"get_tasks_from_team", "get_all_tasks_as_objects"} ->
             "/team/" \o arg \o "/task"
      [] op = "get_task" -> "/task/" \o arg

\* C9: every invocation of a resource operation issues exactly one HTTP
\* GET, to the operation's endpoint, whether it returns or fails: no retry
\* after a failed GET, no further page after a successful one.
C9_ExactlyOneGet ==
    (pc = "done" /\ call.op \in ResourceOps) =>
        /\ Len(sent) = 1
        /\ sent[1].url = self.base_url \o EndpointOf(call.op, call.arg)

\* an aggregate operation failed on an error status
C9_Witness ==
    /\ After("get_all_tasks_as_objects")
    /\ call.resp.reached
    /\ call.resp.status = 500
    /\ ~outcome.ok
    /\ Len(sent) = 1

\* C10: after parse_task has returned, no change to the raw input (or to an
\* array or object nested in it) changes the value of any field of the
\* Task, and no change made through the Task changes the raw input.
C10_TaskSharesNothingWithRaw ==
    [][(CanWrite /\ touched' # touched) =>
           /\ touched'[Len(touched')] = "raw" =>
                  View(heap', outcome'.val) = View(heap, outcome.val)
           /\ touched'[Len(touched')] = "task" =>
                  View(heap', call'.raw) = View(heap, call.raw)]_vars

=============================================================================
